---- MODULE Spec2Model ----
(***************************************************************************)
(* DockerEnvironment (src/src/minisweagent/environments/docker.py): one    *)
(* session object, the container runtime it drives through subprocess      *)
(* invocations, and the host process environment.                           *)
(*                                                                          *)
(* Python values: a str is a sequence (of characters for a container id,    *)
(* of '/'-separated segments for an image reference); Optional[T] is a      *)
(* sequence of length at most one, None == <<>> and Some(v) == <<v>>, so    *)
(* None, "" and a non-empty str are three different values.                 *)
(***************************************************************************)
EXTENDS Naturals, Integers, Sequences, FiniteSets

VARIABLES
    pc,            \* position of the constructor / lifetime of the object
    attrs,         \* the instance attributes that exist (keys of __dict__)
    config,        \* self.config
    container_id,  \* self.container_id
    image_to_use,  \* local variable of _start_container
    calls,         \* the runtime invocations issued so far, in order
    last,          \* the last call made on the session and how it ended
    environ,       \* os.environ of the host process
    container,     \* the runtime's view of the container named by this start
    nOps,          \* number of execute / cleanup calls made by the owner
    terms,         \* the termination sequences spawned so far, in order
    this,          \* which of the two session objects the variables above
                   \* (all but environ) belong to
    other,         \* the same variables of the other session object
    sweep,         \* the periodic sweep script (src/docker_cleanup.py)
    traj           \* the last call of save_traj (run/utils/save.py)

vars == <<pc, attrs, config, container_id, image_to_use, calls, last,
          environ, container, nOps, terms, this, other, sweep, traj>>

\* the second session object, which no operation on the first touches
peer == <<this, other>>

\* the two programs beside the session, which no session operation touches
scripts == <<sweep, traj>>

\* the variables of the session objects and of the host
session == <<pc, attrs, config, container_id, image_to_use, calls, last,
             environ, container, nOps, terms, this, other>>

(***************************************************************************)
(* Bounds of the model.                                                     *)
(***************************************************************************)
MaxOps == 2
MaxSweeps == 2
MaxErrors == 2
MaxMessages == 2

(***************************************************************************)
(* Python values.                                                           *)
(***************************************************************************)
None == <<>>
Some(v) == <<v>>

\* bool(x) of an Optional[str]: None and "" are falsy
TruthyStr(x) == x # None /\ x[1] # <<>>

\* bool(x) of an Optional[int]: None and 0 are falsy
TruthyInt(x) == x # None /\ x[1] # 0

Whitespace == {" ", "\n", "\t"}

RECURSIVE lstrip(_)
lstrip(s) == IF s # <<>> /\ Head(s) \in Whitespace THEN lstrip(Tail(s)) ELSE s

RECURSIVE rstrip(_)
rstrip(s) ==
    IF s # <<>> /\ s[Len(s)] \in Whitespace
    THEN rstrip(SubSeq(s, 1, Len(s) - 1))
    ELSE s

\* str.strip()
strip(s) == rstrip(lstrip(s))

(***************************************************************************)
(* DockerEnvironmentConfig: the defaults of the dataclass and the bounded   *)
(* sets the keyword arguments are drawn from.                               *)
(***************************************************************************)
DefaultCwd == "/"
DefaultTimeout == 30
DefaultPullTimeout == 600
DefaultContainerTimeout == "2h"

Images == { <<"python:3.11">>, <<"docker.io", "python:3.11">> }
Registries == { None, Some(<<>>), Some(<<"localhost:5000">>) }
Envs == { <<>>, << <<"K2", "c2">>, <<"K1", "c1">> >> }
Forwards == { <<>>, <<"K1", "K2">> }
\* names that can be set in the host environment, and their values
HostKeys == {"K1"}
HostValues == { None, Some("h") }

\* a working directory given to the constructor in the place of the default
CustomCwd == "/srv"

\* a container_timeout given to the constructor in the place of the default
CustomContainerTimeout == "3s"

\* faulty variant of line 34: no registry unless the variable is set
default_local_registry_Unset(mswea_local_registry) == mswea_local_registry

\* line 34: os.getenv("MSWEA_LOCAL_REGISTRY", "localhost:5000"), evaluated
\* once when the module is imported, with the value the variable has then
default_local_registry(mswea_local_registry) ==
    IF mswea_local_registry # None
    THEN mswea_local_registry
    ELSE Some(<<"localhost:5000">>)

\* lines 12-36: the configuration built from an image alone, with
\* MSWEA_LOCAL_REGISTRY not set at import
DefaultConfig(image) ==
    [ image |-> image,
      cwd |-> DefaultCwd,
      env |-> <<>>,
      forward_env |-> <<>>,
      timeout |-> DefaultTimeout,
      container_timeout |-> DefaultContainerTimeout,
      pull_timeout |-> DefaultPullTimeout,
      local_registry |-> default_local_registry(None),
      prefer_local_registry |-> TRUE ]

\* the configurations drawn: every combination of the image and of the
\* registry and environment options with the default working directory,
\* one configuration with a working directory and a container_timeout of
\* its own, and the configurations built from an image alone
DockerEnvironmentConfig ==
    [ image : Images,
      cwd : {DefaultCwd},
      env : Envs,
      forward_env : Forwards,
      timeout : {DefaultTimeout},
      container_timeout : {DefaultContainerTimeout},
      pull_timeout : {DefaultPullTimeout},
      local_registry : Registries,
      prefer_local_registry : BOOLEAN ]
    \cup
    [ image : {<<"python:3.11">>},
      cwd : {CustomCwd},
      env : {<<>>},
      forward_env : {<<>>},
      timeout : {DefaultTimeout},
      container_timeout : {CustomContainerTimeout},
      pull_timeout : {DefaultPullTimeout},
      local_registry : {None},
      prefer_local_registry : {TRUE} ]
    \cup
    { DefaultConfig(image) : image \in Images }

NoConfig == [ image |-> <<>>, cwd |-> "", env |-> <<>>, forward_env |-> <<>>,
              timeout |-> 0, container_timeout |-> "", pull_timeout |-> 0,
              local_registry |-> None,
              prefer_local_registry |-> FALSE ]

(***************************************************************************)
(* What a call on the session leaves behind: the exception it raised (or    *)
(* "none"), the value it returned, the exec invocation it built, the        *)
(* number of runtime invocations issued before it, the session state it     *)
(* started from, the call made before it and, for an execute that built    *)
(* its invocation, the arguments it was given and the host environment at   *)
(* the time of the call.                                                    *)
(***************************************************************************)
NoEnviron == [ key \in HostKeys |-> None ]

Session == <<attrs, config, container_id>>

Outcome(op, raised, ret, cmd) ==
    [ op |-> op, raised |-> raised, ret |-> ret, cmd |-> cmd,
      before |-> Len(calls), pre |-> Session, prev |-> last.op,
      args |-> None, environ |-> NoEnviron, earlier |-> None ]

\* one runtime invocation: pull / run of an image, exec in / termination
\* of a container, and how the process ended
Invocation(op, target, outcome) ==
    [ op |-> op, target |-> target, outcome |-> outcome ]

(***************************************************************************)
(* How a process started by subprocess.run can end: it exits with a status  *)
(* and an output, does not finish within the timeout, or cannot be          *)
(* launched at all (the executable is missing).                             *)
(***************************************************************************)
Exit(code, out) == [ kind |-> "exit", returncode |-> code, stdout |-> out ]
Timeout == [ kind |-> "timeout", returncode |-> 0, stdout |-> <<>> ]
LaunchError == [ kind |-> "launch_error", returncode |-> 0, stdout |-> <<>> ]
Spawned == [ kind |-> "spawned", returncode |-> 0, stdout |-> <<>> ]

PullOutcomes == { Exit(0, <<>>), Exit(1, <<>>), Timeout, LaunchError }

\* the run invocation prints the container id when it exits with status 0
RunOutcomes ==
    { Exit(0, <<"c", "1", "\n">>), Exit(0, <<"\n">>), Exit(125, <<>>),
      Timeout, LaunchError }

ReturnCodes == {0, 42}
ExecOutcomes ==
    { Exit(n, <<"o">>) : n \in ReturnCodes } \cup { Timeout, LaunchError }

\* the exec client's answer when the container it names is not running:
\* the runtime's error message and status 1
NotRunning == Exit(1, <<"e">>)

\* faulty variant: check=True is missing, a non-zero exit raises nothing
check_true_error_NoCheck(out) ==
    CASE out.kind = "exit"    -> "none"
      [] out.kind = "timeout" -> "TimeoutExpired"
      [] OTHER                -> "FileNotFoundError"

\* the exception subprocess.run(..., check=True) raises
check_true_error(out) ==
    CASE out.kind = "exit" /\ out.returncode = 0 -> "none"
      [] out.kind = "exit"                       -> "CalledProcessError"
      [] out.kind = "timeout"                    -> "TimeoutExpired"
      [] OTHER                                   -> "FileNotFoundError"

\* the exception subprocess.run(...) raises without check
check_false_error(out) ==
    CASE out.kind = "exit"    -> "none"
      [] out.kind = "timeout" -> "TimeoutExpired"
      [] OTHER                -> "FileNotFoundError"

\* docker_cleanup.py, line 101: main has been entered, nothing has run
SweepStart ==
    [ pc |-> "wait", steps |-> <<>>, rc |-> 0, since |-> <<>>,
      done |-> <<>>, n |-> 0, errors |-> 0 ]

\* save.py: save_traj has not been called
NotSaved ==
    [ called |-> FALSE, agent |-> None, save_logprobs |-> FALSE,
      raised |-> "none", traj_file |-> FALSE, logprobs_file |-> FALSE,
      logprobs_count |-> 0 ]

\* a session object on which nothing was called yet
Fresh ==
    [ pc |-> "new", attrs |-> {}, config |-> NoConfig, container_id |-> None,
      image_to_use |-> <<>>, calls |-> <<>>,
      last |-> [ op |-> "none", raised |-> "none", ret |-> None,
                 cmd |-> None, before |-> 0, pre |-> <<{}, NoConfig, None>>,
                 prev |-> "none", args |-> None, environ |-> NoEnviron,
                 earlier |-> None ],
      container |-> "none", nOps |-> 0, terms |-> <<>> ]

(***************************************************************************)
(* Init: the object exists (__new__ has run), __init__ has not.             *)
(***************************************************************************)
Init ==
    /\ pc = "new"
    /\ attrs = {}
    /\ config = NoConfig
    /\ container_id = None
    /\ image_to_use = <<>>
    /\ calls = <<>>
    /\ last = [ op |-> "none", raised |-> "none", ret |-> None, cmd |-> None,
                before |-> 0, pre |-> <<{}, NoConfig, None>>, prev |-> "none",
                args |-> None, environ |-> NoEnviron, earlier |-> None ]
    /\ environ \in [HostKeys -> HostValues]
    /\ container = "none"
    /\ nOps = 0
    /\ terms = <<>>
    /\ this = 1
    /\ other = Fresh
    /\ sweep = SweepStart
    /\ traj = NotSaved

(***************************************************************************)
(* __init__, lines 41-47.  The call can fail before the body runs (the      *)
(* parameters are keyword-only: a positional argument is a TypeError), and  *)
(* construction of the config can fail (image is required) after            *)
(* container_id was set to None.                                            *)
(***************************************************************************)
InitBadCall ==
    /\ pc = "new"
    /\ pc' = "failed"
    /\ last' = Outcome("__init__", "TypeError", None, None)
    /\ UNCHANGED <<peer, scripts, attrs, config, container_id, image_to_use, calls, environ,
                   container, nOps, terms>>

InitBadConfig ==
    /\ pc = "new"
    /\ attrs' = {"logger", "container_id"}
    /\ container_id' = None
    /\ pc' = "failed"
    /\ last' = Outcome("__init__", "TypeError", None, None)
    /\ UNCHANGED <<peer, scripts, config, image_to_use, calls, environ, container, nOps, terms>>

InitConfig(cfg) ==
    /\ pc = "new"
    /\ attrs' = {"logger", "container_id", "config"}
    /\ container_id' = None
    /\ config' = cfg
    /\ image_to_use' = cfg.image
    /\ pc' = "start"
    /\ UNCHANGED <<peer, scripts, calls, last, environ, container, nOps, terms>>

(***************************************************************************)
(* _start_container, lines 83-127, one step per runtime invocation.         *)
(***************************************************************************)
\* faulty variant of lines 78-79: the docker.io/ prefix is kept
_get_local_registry_image_NoStrip(image_name) ==
    IF TruthyStr(config.local_registry)
    THEN config.local_registry[1] \o image_name
    ELSE image_name

\* _get_local_registry_image, lines 74-81
_get_local_registry_image(image_name) ==
    IF TruthyStr(config.local_registry)
    THEN LET stripped ==
                 IF Len(image_name) >= 2 /\ image_name[1] = "docker.io"
                 THEN Tail(image_name)
                 ELSE image_name
         IN  config.local_registry[1] \o stripped
    ELSE image_name

\* faulty variant of lines 67-72: no except clause at all
_pull_image_Raises(out) ==
    IF check_true_error(out) = "none" THEN "True" ELSE check_true_error(out)

\* faulty variant of lines 67-72: the except clause of line 70 is missing
_pull_image_TimeoutRaises(out) ==
    CASE check_true_error(out) = "none"               -> "True"
      [] check_true_error(out) = "CalledProcessError" -> "False"
      [] OTHER                                        -> check_true_error(out)

\* _pull_image, lines 53-72: "True", "False", or the exception that escapes
_pull_image(out) ==
    CASE check_true_error(out) = "none"               -> "True"
      [] check_true_error(out) = "CalledProcessError" -> "False"
      [] check_true_error(out) = "TimeoutExpired"     -> "False"
      [] OTHER                                        -> check_true_error(out)

\* faulty variant of line 88: prefer_local_registry is not consulted
try_local_registry_IgnoresPrefer == TruthyStr(config.local_registry)

\* the condition of line 88
try_local_registry ==
    config.prefer_local_registry /\ TruthyStr(config.local_registry)

\* faulty variant of lines 91-92: the mirror reference is used even when
\* its pull failed
image_after_local_pull_Always(pulled, local_image) == local_image

\* faulty variant of lines 91-92: the assignment of line 92 is missing
image_after_local_pull_Never(pulled, local_image) == image_to_use

\* lines 91-92: image_to_use after the pull from the local registry
image_after_local_pull(pulled, local_image) ==
    IF pulled = "True" THEN local_image ELSE image_to_use

\* lines 88-93: the pull from the local registry
StartPullLocal(out) ==
    /\ pc = "start"
    /\ try_local_registry
    /\ LET local_image == _get_local_registry_image(config.image)
           pulled == _pull_image(out)
       IN  /\ calls' = Append(calls, Invocation("pull", local_image, out))
           /\ image_to_use' = image_after_local_pull(pulled, local_image)
           /\ pc' = CASE pulled = "True"  -> "run"
                      [] pulled = "False" -> "fallback"
                      [] OTHER            -> "failed"
           /\ last' = IF pulled \in {"True", "False"} THEN last
                      ELSE Outcome("__init__", pulled, None, None)
    /\ UNCHANGED <<peer, scripts, attrs, config, container_id, environ, container, nOps,
                   terms>>

\* faulty variant of lines 94-102: the image is pulled again whenever the
\* session is looked at after its start
StartPullOriginal_Again(out) ==
    /\ pc \in {"start", "fallback", "started"}
    /\ pc = "start" => ~try_local_registry
    /\ calls' = Append(calls, Invocation("pull", config.image, out))
    /\ pc' = IF pc = "started" THEN "started" ELSE "run"
    /\ UNCHANGED <<peer, scripts, attrs, config, container_id, image_to_use, last, environ,
                   container, nOps, terms>>

\* lines 94-102: the pull from the original source
StartPullOriginal(out) ==
    /\ \/ pc = "start" /\ ~try_local_registry
       \/ pc = "fallback"
    /\ LET pulled == _pull_image(out)
       IN  /\ calls' = Append(calls, Invocation("pull", config.image, out))
           /\ pc' = IF pulled \in {"True", "False"} THEN "run" ELSE "failed"
           /\ last' = IF pulled \in {"True", "False"} THEN last
                      ELSE Outcome("__init__", pulled, None, None)
    /\ UNCHANGED <<peer, scripts, attrs, config, container_id, image_to_use, environ,
                   container, nOps, terms>>

\* faulty variant of line 127: the id is stored on the class, where every
\* instance reads it
StartRun_OnClass(out, created) ==
    /\ pc = "run"
    /\ \/ check_true_error(out) = "none" /\ created
       \/ check_true_error(out) \in {"CalledProcessError", "TimeoutExpired"}
       \/ check_true_error(out) = "FileNotFoundError" /\ ~created
    /\ calls' = Append(calls, Invocation("run", image_to_use, out))
    /\ container' = IF created THEN "running" ELSE container
    /\ IF check_true_error(out) = "none"
       THEN /\ container_id' = Some(strip(out.stdout))
            /\ other' = [other EXCEPT !.container_id = Some(strip(out.stdout))]
            /\ pc' = "started"
       ELSE /\ container_id' = container_id
            /\ other' = other
            /\ pc' = "failed"
    /\ last' = Outcome("__init__", check_true_error(out), None, None)
    /\ UNCHANGED <<this, scripts, attrs, config, image_to_use, environ, nOps,
                   terms>>

\* lines 104-127: the run invocation.  The runtime daemon creates the
\* container on behalf of the client process: when the client exits
\* non-zero or is killed at the timeout, the daemon may or may not have
\* created the container already.
StartRun(out, created) ==
    /\ pc = "run"
    /\ \/ check_true_error(out) = "none" /\ created
       \/ check_true_error(out) \in {"CalledProcessError", "TimeoutExpired"}
       \/ check_true_error(out) = "FileNotFoundError" /\ ~created
    /\ calls' = Append(calls, Invocation("run", image_to_use, out))
    /\ container' = IF created THEN "running" ELSE container
    /\ IF check_true_error(out) = "none"
       THEN /\ container_id' = Some(strip(out.stdout))
            /\ pc' = "started"
       ELSE /\ container_id' = container_id
            /\ pc' = "failed"
    /\ last' = Outcome("__init__", check_true_error(out), None, None)
    /\ UNCHANGED <<peer, scripts, attrs, config, image_to_use, environ, nOps, terms>>

(***************************************************************************)
(* execute, lines 129-151.                                                  *)
(***************************************************************************)
CwdArgs == {"", "/tmp"}
TimeoutArgs == {None, Some(0), Some(5)}

\* faulty variant of line 136: the value read by the execute before is
\* kept
getenv_Cached(key) ==
    IF last.op = "execute" /\ last.cmd # None /\ key \in DOMAIN last.environ
    THEN last.environ[key]
    ELSE IF key \in DOMAIN environ THEN environ[key] ELSE None

\* os.getenv(key), line 136
getenv(key) == IF key \in DOMAIN environ THEN environ[key] ELSE None

\* faulty variant of lines 135-137: a flag for every forwarded name, with
\* an empty value for a name that is not set on the host
forward_flags_NoCheck(keys) ==
    [ i \in 1..Len(keys) |->
          <<keys[i], IF getenv(keys[i]) # None THEN getenv(keys[i])[1] ELSE "">> ]

\* lines 135-137: one -e flag per forwarded name that is set on the host
RECURSIVE forward_flags(_)
forward_flags(keys) ==
    IF keys = <<>> THEN <<>>
    ELSE LET value == getenv(Head(keys))
         IN  (IF value # None THEN << <<Head(keys), value[1]>> >> ELSE <<>>)
                 \o forward_flags(Tail(keys))

\* lines 138-139: one -e flag per entry of config.env
env_flags == config.env

\* faulty variant of lines 135-139: the two loops in the other order
exec_env_EnvFirst == env_flags \o forward_flags(config.forward_env)

\* lines 134-140: the -e flags of the exec invocation, in order
exec_env == forward_flags(config.forward_env) \o env_flags

\* faulty variant of line 131: the cwd argument is not looked at
exec_cmd_IgnoresCwd(cwd, timeout) ==
    [ cwd |-> config.cwd,
      env |-> exec_env,
      target |-> container_id,
      timeout |-> IF TruthyInt(timeout) THEN timeout[1] ELSE config.timeout ]

\* lines 131-145: the exec invocation and the timeout it is run with
exec_cmd(cwd, timeout) ==
    [ cwd |-> IF cwd # "" THEN cwd ELSE config.cwd,
      env |-> exec_env,
      target |-> container_id,
      timeout |-> IF TruthyInt(timeout) THEN timeout[1] ELSE config.timeout ]

\* lines 134-150: what the exec client can answer, given the container the
\* invocation of line 140 names: a command runs only in a running
\* container
exec_possible(out) ==
    IF container = "running"
    THEN out # NotRunning
    ELSE out.kind = "exit" => out = NotRunning

\* faulty variant of lines 131-134: the assert of line 132 is missing
execute_precondition_NoAssert(cwd) ==
    IF "config" \notin attrs \/ "container_id" \notin attrs
    THEN "AttributeError"
    ELSE "none"

\* lines 131-134: the exception raised before the invocation is built
execute_precondition(cwd) ==
    IF cwd = "" /\ "config" \notin attrs THEN "AttributeError"
    ELSE IF "container_id" \notin attrs THEN "AttributeError"
    ELSE IF ~TruthyStr(container_id) THEN "AssertionError"
    ELSE IF "config" \notin attrs THEN "AttributeError"
    ELSE "none"

\* faulty variant of lines 142-150: subprocess.run called with check=True
execute_error_CheckTrue(out) == check_true_error(out)

\* faulty variant of lines 142-150: TimeoutExpired is caught and a result
\* is returned
execute_error_AbsorbsTimeout(out) ==
    IF out.kind = "launch_error" THEN "FileNotFoundError" ELSE "none"

\* lines 142-150: subprocess.run without check; the exception it raises
execute_error(out) == check_false_error(out)

\* line 151: the returned dict
execute_return(out) ==
    [ output |-> out.stdout, returncode |-> out.returncode ]

\* the host values, in env, of the names of forward_env
forwarded_host(env) ==
    [ key \in { config.forward_env[i] : i \in 1..Len(config.forward_env) }
                  \cap DOMAIN env |-> env[key] ]

\* what the execute made just before this one passed to the runtime, and
\* the host values of the forwarded names at its time
earlier_execute ==
    IF last.op = "execute" /\ last.cmd # None
    THEN Some([ env |-> last.cmd[1].env,
                host |-> forwarded_host(last.environ) ])
    ELSE None

\* the arguments of an execute call
ExecuteArgs(cwd, timeout) == Some([ cwd |-> cwd, timeout |-> timeout ])

Execute(cwd, timeout, out) ==
    /\ pc \in {"started", "failed"}
    /\ nOps < MaxOps
    /\ nOps' = nOps + 1
    /\ IF execute_precondition(cwd) # "none"
       THEN /\ last' = Outcome("execute", execute_precondition(cwd), None, None)
            /\ calls' = calls
       ELSE LET cmd == exec_cmd(cwd, timeout)
                err == execute_error(out)
            IN  /\ exec_possible(out)
                /\ calls' = Append(calls, Invocation("exec", cmd.target, out))
                /\ last' = [ Outcome("execute", err,
                                     IF err = "none"
                                     THEN Some(execute_return(out))
                                     ELSE None,
                                     Some(cmd))
                             EXCEPT !.args = ExecuteArgs(cwd, timeout),
                                    !.environ = environ,
                                    !.earlier = earlier_execute ]
    /\ UNCHANGED <<peer, scripts, pc, attrs, config, container_id, image_to_use, environ,
                   container, terms>>

(***************************************************************************)
(* cleanup, lines 153-157, and __del__, lines 159-161.                      *)
(***************************************************************************)
\* faulty variant of line 155: hasattr instead of a test against None
cleanup_guard_HasAttr == "container_id" \in attrs

\* line 155: getattr(self, "container_id", None) is not None
cleanup_guard == "container_id" \in attrs /\ container_id # None

\* faulty variant of line 155: self.container_id read without a default
cleanup_error_NoDefault ==
    IF "container_id" \notin attrs \/ (cleanup_guard /\ "config" \notin attrs)
    THEN "AttributeError"
    ELSE "none"

\* lines 155-156: the exception raised by reading the attributes (the
\* getattr default covers a missing container_id; self.config is read
\* only behind the guard)
cleanup_error ==
    IF cleanup_guard /\ "config" \notin attrs THEN "AttributeError" ELSE "none"

\* line 156: the ceiling of the graceful stop, in seconds
StopTimeout == 60

\* line 156: the shell command "(timeout 60 <executable> stop <id> ||
\* <executable> rm -f <id>) >/dev/null 2>&1 &" as spawned: the stop has not
\* been attempted yet and no force-remove has been issued
term_sequence(cid) ==
    [ target |-> cid, bound |-> StopTimeout, stop |-> "pending",
      rm |-> "none" ]

\* faulty variant of lines 155-157: container_id is reset by cleanup
cleanup_ClearsId(op) ==
    /\ last' = Outcome(op, cleanup_error, None, None)
    /\ calls' = IF cleanup_guard /\ cleanup_error = "none"
                THEN Append(calls, Invocation("term", container_id, Spawned))
                ELSE calls
    /\ terms' = IF cleanup_guard /\ cleanup_error = "none"
                THEN Append(terms, term_sequence(container_id))
                ELSE terms
    /\ container_id' = None
    /\ UNCHANGED <<peer, scripts, attrs, config, image_to_use, environ, container>>

\* faulty variant of line 157: the shell command is run in the foreground
\* and waited for, so the stop has ended when cleanup returns
cleanup_Waits(op) ==
    /\ last' = Outcome(op, cleanup_error, None, None)
    /\ calls' = IF cleanup_guard /\ cleanup_error = "none"
                THEN Append(calls, Invocation("term", container_id, Spawned))
                ELSE calls
    /\ terms' = IF cleanup_guard /\ cleanup_error = "none"
                THEN Append(terms, [ term_sequence(container_id)
                                         EXCEPT !.stop = "ok" ])
                ELSE terms
    /\ container' = IF cleanup_guard /\ cleanup_error = "none"
                    THEN "gone"
                    ELSE container
    /\ UNCHANGED <<peer, scripts, attrs, config, container_id, image_to_use, environ>>

\* lines 155-157: the body of cleanup, called as `op`; the shell command is
\* spawned with Popen and not waited for
cleanup(op) ==
    /\ last' = Outcome(op, cleanup_error, None, None)
    /\ calls' = IF cleanup_guard /\ cleanup_error = "none"
                THEN Append(calls, Invocation("term", container_id, Spawned))
                ELSE calls
    /\ terms' = IF cleanup_guard /\ cleanup_error = "none"
                THEN Append(terms, term_sequence(container_id))
                ELSE terms
    /\ UNCHANGED <<peer, scripts, attrs, config, container_id, image_to_use, environ,
                   container>>

Cleanup ==
    /\ pc \in {"started", "failed"}
    /\ nOps < MaxOps
    /\ nOps' = nOps + 1
    /\ pc' = pc
    /\ cleanup("cleanup")

\* faulty variant of lines 159-161: a destructor that does not call cleanup
Del_NoCleanup ==
    /\ pc \in {"started", "failed"}
    /\ pc' = "deleted"
    /\ last' = Outcome("__del__", "none", None, None)
    /\ UNCHANGED <<peer, scripts, attrs, config, container_id, image_to_use, calls, environ,
                   container, nOps, terms>>

\* lines 159-161: the object's lifetime ends: the destructor runs once
Del ==
    /\ pc \in {"started", "failed"}
    /\ pc' = "deleted"
    /\ nOps' = nOps
    /\ cleanup("__del__")

(***************************************************************************)
(* The host process environment changes between calls.                      *)
(***************************************************************************)
SetEnviron(key, value) ==
    /\ environ[key] # value
    /\ environ' = [environ EXCEPT ![key] = value]
    /\ UNCHANGED <<peer, scripts, pc, attrs, config, container_id, image_to_use, calls, last,
                   container, nOps, terms>>

Next ==
    \/ InitBadCall
    \/ InitBadConfig
    \/ \E cfg \in DockerEnvironmentConfig : InitConfig(cfg)
    \/ \E out \in PullOutcomes : StartPullLocal(out)
    \/ \E out \in PullOutcomes : StartPullOriginal(out)
    \/ \E out \in RunOutcomes, created \in BOOLEAN : StartRun(out, created)
    \/ \E cwd \in CwdArgs, t \in TimeoutArgs, out \in ExecOutcomes :
           Execute(cwd, t, out)
    \/ Cleanup
    \/ Del
    \/ \E k \in HostKeys, v \in HostValues : SetEnviron(k, v)

Spec == Init /\ [][Next]_vars

(***************************************************************************)
(* The termination sequences run detached from the session, in the shell    *)
(* spawned by cleanup (line 156).                                           *)
(***************************************************************************)
\* whether a sequence names the container the runtime holds
names_container(t) == TruthyStr(t.target) /\ container = "running"

\* faulty variant of line 156: ";" in the place of "||"
rm_after_Always(stop) == TRUE

\* line 156: "||" runs the force-remove when the stop ends non-zero
rm_after(stop) == stop # "ok"

\* "timeout 60 <executable> stop <id>" ends: the container stopped ("ok"),
\* the stop failed ("failed", always the case when there is no such
\* container), or it did not complete within the bound ("timeout")
TermStop(i, result) ==
    /\ i \in 1..Len(terms)
    /\ terms[i].stop = "pending"
    /\ result \in {"ok", "timeout"} => names_container(terms[i])
    /\ terms' = [ terms EXCEPT ![i].stop = result,
                               ![i].rm = IF rm_after(result) THEN "issued"
                                         ELSE "none" ]
    /\ container' = IF result = "ok" THEN "gone" ELSE container
    /\ UNCHANGED <<peer, scripts, pc, attrs, config, container_id, image_to_use, calls, last,
                   environ, nOps>>

\* "<executable> rm -f <id>" ends, having removed the container or not
TermRm(i, removed) ==
    /\ i \in 1..Len(terms)
    /\ terms[i].rm = "issued"
    /\ removed => names_container(terms[i])
    /\ terms' = [ terms EXCEPT ![i].rm = "done" ]
    /\ container' = IF removed THEN "gone" ELSE container
    /\ UNCHANGED <<peer, scripts, pc, attrs, config, container_id, image_to_use, calls, last,
                   environ, nOps>>

(***************************************************************************)
(* RuntimeSpec: the session with the registry and environment options at    *)
(* one value and execute called with its default arguments, together with   *)
(* the detached progress of the termination sequences.                      *)
(***************************************************************************)
RuntimeConfigs ==
    { cfg \in DockerEnvironmentConfig :
          /\ cfg.image = <<"python:3.11">>
          /\ cfg.local_registry = Some(<<"localhost:5000">>)
          /\ cfg.prefer_local_registry
          /\ cfg.env = <<>>
          /\ cfg.forward_env = <<>> }

StopResults == {"ok", "failed", "timeout"}

RuntimeNext ==
    \/ InitBadCall
    \/ InitBadConfig
    \/ \E cfg \in RuntimeConfigs : InitConfig(cfg)
    \/ \E out \in PullOutcomes : StartPullLocal(out)
    \/ \E out \in PullOutcomes : StartPullOriginal(out)
    \/ \E out \in RunOutcomes, created \in BOOLEAN : StartRun(out, created)
    \/ \E out \in ExecOutcomes \cup {NotRunning} : Execute("", None, out)
    \/ Cleanup
    \/ Del
    \/ \E i \in 1..Len(terms), r \in StopResults : TermStop(i, r)
    \/ \E i \in 1..Len(terms), removed \in BOOLEAN : TermRm(i, removed)

RuntimeSpec == Init /\ [][RuntimeNext]_vars

(***************************************************************************)
(* TwoSpec: two session objects in one process, their operations (and the   *)
(* steps of their constructors) interleaved in any order.  Every attribute  *)
(* is an instance attribute (lines 45-47, 127); the host environment is     *)
(* the one thing the two share.  The runtime gives every container it       *)
(* creates an id of its own.                                                *)
(***************************************************************************)
\* the next step is taken by the other session object
Switch ==
    /\ this' = 3 - this
    /\ other' = [ pc |-> pc, attrs |-> attrs, config |-> config,
                  container_id |-> container_id,
                  image_to_use |-> image_to_use, calls |-> calls,
                  last |-> last, container |-> container, nOps |-> nOps,
                  terms |-> terms ]
    /\ pc' = other.pc
    /\ attrs' = other.attrs
    /\ config' = other.config
    /\ container_id' = other.container_id
    /\ image_to_use' = other.image_to_use
    /\ calls' = other.calls
    /\ last' = other.last
    /\ container' = other.container
    /\ nOps' = other.nOps
    /\ terms' = other.terms
    /\ UNCHANGED <<environ, scripts>>

TwoConfigs ==
    { cfg \in DockerEnvironmentConfig :
          /\ cfg.image = <<"python:3.11">>
          /\ cfg.local_registry = None
          /\ cfg.prefer_local_registry
          /\ cfg.env = <<>>
          /\ cfg.forward_env = <<>>
          /\ cfg.cwd = DefaultCwd }

\* what the run invocation of session object n can answer
RunOutcomesOf(n) ==
    { Exit(0, <<"c", IF n = 1 THEN "1" ELSE "2", "\n">>), Exit(125, <<>>) }

TwoNext ==
    \/ \E cfg \in TwoConfigs : InitConfig(cfg)
    \/ StartPullOriginal(Exit(0, <<>>))
    \/ \E out \in RunOutcomesOf(this) : StartRun(out, TRUE)
    \/ \E out \in {Exit(0, <<"o">>), Timeout} : Execute("", None, out)
    \/ Cleanup
    \/ Del
    \/ Switch

TwoSpec == Init /\ [][TwoNext]_vars

(***************************************************************************)
(* ForwardSpec: a session with forward_env whose host environment takes     *)
(* several values between the execute calls.                                *)
(***************************************************************************)
ForwardConfigs ==
    { cfg \in DockerEnvironmentConfig :
          /\ cfg.image = <<"python:3.11">>
          /\ cfg.local_registry = None
          /\ cfg.prefer_local_registry
          /\ cfg.forward_env # <<>> }

ForwardValues == HostValues \cup { Some("g") }

ForwardNext ==
    \/ \E cfg \in ForwardConfigs : InitConfig(cfg)
    \/ \E out \in PullOutcomes : StartPullOriginal(out)
    \/ \E out \in RunOutcomes, created \in BOOLEAN : StartRun(out, created)
    \/ \E out \in ExecOutcomes : Execute("", None, out)
    \/ Cleanup
    \/ Del
    \/ \E k \in HostKeys, v \in ForwardValues : SetEnviron(k, v)

ForwardSpec == Init /\ [][ForwardNext]_vars

(***************************************************************************)
(* LifetimeSpec: the container's own process.  The run invocation starts    *)
(* the container detached (-d) with `sleep <container_timeout>` as its      *)
(* command (lines 108, 115-116); the container stops when that process      *)
(* ends, whatever the session object does.                                  *)
(***************************************************************************)
\* faulty variant of lines 115-116: container_timeout is not passed on
run_command_NoTimeout == <<"sleep", "infinity">>

\* lines 115-116: the command the container runs
run_command == <<"sleep", config.container_timeout>>

\* the sleep of the container ends
SleepEnds ==
    /\ container = "running"
    /\ run_command[1] = "sleep"
    /\ run_command[2] # "infinity"
    /\ container' = "gone"
    /\ UNCHANGED <<peer, scripts, pc, attrs, config, container_id, image_to_use, calls, last,
                   environ, nOps, terms>>

LifetimeConfigs ==
    { cfg \in DockerEnvironmentConfig :
          /\ cfg.image = <<"python:3.11">>
          /\ cfg.local_registry = None
          /\ cfg.prefer_local_registry
          /\ cfg.env = <<>>
          /\ cfg.forward_env = <<>> }

LifetimeNext ==
    \/ \E cfg \in LifetimeConfigs : InitConfig(cfg)
    \/ \E out \in PullOutcomes : StartPullOriginal(out)
    \/ \E out \in RunOutcomes, created \in BOOLEAN : StartRun(out, created)
    \/ \E out \in ExecOutcomes \cup {NotRunning} : Execute("", None, out)
    \/ Cleanup
    \/ Del
    \/ \E i \in 1..Len(terms), r \in StopResults : TermStop(i, r)
    \/ \E i \in 1..Len(terms), removed \in BOOLEAN : TermRm(i, removed)
    \/ SleepEnds

\* a sleep of a finite duration ends
LifetimeSpec == Init /\ [][LifetimeNext]_vars /\ WF_vars(SleepEnds)

(***************************************************************************)
(* SweepSpec: the periodic sweep script, src/docker_cleanup.py.  sweep      *)
(* holds the position in main (pc), the commands run in the sweep in        *)
(* progress (steps), the return code of the last command (rc), the waits    *)
(* completed since the last sweep began, in hours (since), the commands of  *)
(* the last sweep that ran to its end (done), the number of sweeps begun    *)
(* (n) and of exceptions absorbed (errors).                                 *)
(***************************************************************************)
\* line 108: time.sleep(3 * 60 * 60), in hours
SweepInterval == 3

\* line 137: time.sleep(60 * 60), in hours
RetryInterval == 1

\* how a command of the sweep can end
SweepOutcomes == { Exit(0, <<>>), Exit(1, <<>>), Timeout, LaunchError }

\* lines 18-33: run_docker_command, the return code or the exception
run_docker_command(out) ==
    CASE out.kind = "exit"    -> [ raised |-> "none",
                                   returncode |-> out.returncode ]
      [] out.kind = "timeout" -> [ raised |-> "none", returncode |-> -1 ]
      [] OTHER                -> [ raised |-> "none", returncode |-> -1 ]

\* the positions of main inside the try block, lines 104-125
SweepCommands == {"df1", "prune_a", "network", "builder", "images",
                  "dangling", "df2"}

\* the command run at a position: lines 39, 54, 62, 70, 82-84, 92, 39
command_at(p) ==
    CASE p = "df1"      -> "system df"
      [] p = "prune_a"  -> "image prune -f -a"
      [] p = "network"  -> "network prune -f"
      [] p = "builder"  -> "builder prune -f"
      [] p = "images"   -> "images"
      [] p = "dangling" -> "image prune -f"
      [] OTHER          -> "system df"

\* the position after the command at p returned rc: lines 112-120, with
\* the early return of lines 85-87
after_command(p, rc) ==
    CASE p = "df1"      -> "prune_a"
      [] p = "prune_a"  -> "network"
      [] p = "network"  -> "builder"
      [] p = "builder"  -> "images"
      [] p = "images"   -> IF rc # 0 THEN "df2" ELSE "dangling"
      [] p = "dangling" -> "df2"
      [] OTHER          -> "wait"

\* line 108: the wait at the top of the loop
SweepSleep ==
    /\ sweep.pc = "wait"
    /\ sweep.n < MaxSweeps
    /\ sweep' = [ sweep EXCEPT !.pc = "df1",
                               !.since = Append(@, SweepInterval) ]
    /\ UNCHANGED <<session, traj>>

\* lines 112-120: one command of the sweep
SweepCommand(out) ==
    /\ sweep.pc \in SweepCommands
    /\ LET rc == run_docker_command(out).returncode
           ran == IF sweep.pc = "df1" THEN << command_at(sweep.pc) >>
                  ELSE Append(sweep.steps, command_at(sweep.pc))
       IN  sweep' = [ sweep EXCEPT
                        !.pc = after_command(sweep.pc, rc),
                        !.rc = rc,
                        !.steps = ran,
                        !.since = IF sweep.pc = "df1" THEN <<>> ELSE @,
                        !.n = IF sweep.pc = "df1" THEN @ + 1 ELSE @,
                        !.done = IF sweep.pc = "df2" THEN ran ELSE @ ]
    /\ UNCHANGED <<session, traj>>

\* lines 134-136: an exception that is not a KeyboardInterrupt is raised
\* somewhere in the try block
SweepException ==
    /\ sweep.pc \in SweepCommands \cup {"wait"}
    /\ sweep.errors < MaxErrors
    /\ sweep' = [ sweep EXCEPT !.pc = "retry", !.errors = @ + 1 ]
    /\ UNCHANGED <<session, traj>>

\* line 137: the wait of the except clause
SweepRetrySleep ==
    /\ sweep.pc = "retry"
    /\ sweep' = [ sweep EXCEPT !.pc = "wait",
                               !.since = Append(@, RetryInterval) ]
    /\ UNCHANGED <<session, traj>>

\* lines 131-133: KeyboardInterrupt in the try block ends the loop; line
\* 137 is outside the try block, an interrupt there leaves main as an
\* exception
SweepInterrupt ==
    /\ sweep.pc \in SweepCommands \cup {"wait", "retry"}
    /\ sweep' = [ sweep EXCEPT
                     !.pc = IF sweep.pc = "retry" THEN "crashed"
                            ELSE "exited" ]
    /\ UNCHANGED <<session, traj>>

SweepNext ==
    \/ SweepSleep
    \/ \E out \in SweepOutcomes : SweepCommand(out)
    \/ SweepException
    \/ SweepRetrySleep
    \/ SweepInterrupt

SweepSpec == Init /\ [][SweepNext]_vars

(***************************************************************************)
(* SaveSpec: save_traj, src/src/minisweagent/run/utils/save.py.  A message  *)
(* is a dict: a key that is absent is None here, a key that is present is   *)
(* Some(value).                                                             *)
(***************************************************************************)
\* a response choice without and with the key "logprobs"
Choice(logprobs) == [ logprobs |-> logprobs ]

\* a message whose "extra", if any, holds a "response" with these choices
Message(role, choices) ==
    [ role |-> role,
      extra |-> Some([ response |-> Some([ choices |-> Some(choices) ]) ]) ]

Messages ==
    { [ role |-> "user", extra |-> None ],
      [ role |-> "assistant", extra |-> None ],
      [ role |-> "assistant", extra |-> Some([ response |-> None ]) ],
      [ role |-> "assistant",
        extra |-> Some([ response |-> Some([ choices |-> None ]) ]) ],
      Message("assistant", <<>>),
      Message("assistant", << Choice(None) >>),
      Message("assistant", << Choice(Some("lp")) >>),
      Message("assistant", << Choice(None), Choice(Some("lp")) >>),
      Message("user", << Choice(Some("lp")) >>) }

\* agent.messages: the lists of at most MaxMessages messages
MessageLists ==
    UNION { [ 1..n -> Messages ] : n \in 0..MaxMessages }

\* lines 27-29: the message reaches the indexing of line 30
has_choices(message) ==
    /\ message.role = "assistant"
    /\ message.extra # None
    /\ message.extra[1].response # None
    /\ message.extra[1].response[1].choices # None

\* lines 26-34, from the message at position i on: the exception raised
\* (IndexError for choices[0] of an empty list) or the entries appended
RECURSIVE extract_from(_, _)
extract_from(messages, i) ==
    IF i > Len(messages) THEN [ raised |-> "none", data |-> <<>> ]
    ELSE IF has_choices(messages[i])
            /\ messages[i].extra[1].response[1].choices[1] = <<>>
    THEN [ raised |-> "IndexError", data |-> <<>> ]
    ELSE LET rest == extract_from(messages, i + 1)
             choice == messages[i].extra[1].response[1].choices[1][1]
             entry == IF has_choices(messages[i]) /\ choice.logprobs # None
                      THEN << [ message_index |-> i - 1,
                                logprobs |-> choice.logprobs[1] ] >>
                      ELSE <<>>
         IN  IF rest.raised # "none" THEN rest
             ELSE [ raised |-> "none", data |-> entry \o rest.data ]

\* lines 22-34
_extract_logprobs_from_messages(messages) == extract_from(messages, 1)

\* lines 63-113: save_traj(agent, path, save_logprobs=...), with a path
\* that can be written
save_traj(agent, save_logprobs) ==
    LET extracted == IF save_logprobs /\ agent # None
                     THEN _extract_logprobs_from_messages(agent[1])
                     ELSE [ raised |-> "none", data |-> <<>> ]
    IN  /\ traj' = [ called |-> TRUE,
                     agent |-> agent,
                     save_logprobs |-> save_logprobs,
                     raised |-> extracted.raised,
                     traj_file |-> TRUE,
                     logprobs_file |-> extracted.raised = "none"
                                           /\ Len(extracted.data) > 0,
                     logprobs_count |-> IF extracted.raised = "none"
                                        THEN Len(extracted.data)
                                        ELSE 0 ]
        /\ UNCHANGED <<session, sweep>>

\* one call of save_traj, with any agent and flag
SaveNext ==
    /\ ~traj.called
    /\ \E agent \in {None} \cup { Some(m) : m \in MessageLists },
          save_logprobs \in BOOLEAN :
           save_traj(agent, save_logprobs)

SaveSpec == Init /\ [][SaveNext]_vars

(***************************************************************************)
(* Properties of the session.                                               *)
(***************************************************************************)
PreAttrs == last.pre[1]
PreContainerId == last.pre[3]

\* the runtime invocations issued by the last call on the session
Issued == SubSeq(calls, last.before + 1, Len(calls))

IsCleanup == last.op \in {"cleanup", "__del__"}

PullFailed(i) == _pull_image(calls[i].outcome) = "False"

\* the runtime applies the -e flags of an exec invocation left to right, a
\* later definition of a name replacing an earlier one
RECURSIVE container_env(_, _)
container_env(flags, key) ==
    IF flags = <<>> THEN None
    ELSE IF flags[Len(flags)][1] = key THEN Some(flags[Len(flags)][2])
    ELSE container_env(SubSeq(flags, 1, Len(flags) - 1), key)

\* C1: execute on a session that has a configuration but no container id
\* fails with the precondition (assertion) error and issues no runtime
\* invocation.
C1_ExecuteBeforeStartFails ==
    (last.op = "execute" /\ "config" \in PreAttrs /\ PreContainerId = None)
        => /\ last.raised = "AssertionError"
           /\ last.cmd = None
           /\ Issued = <<>>

C1_Witness ==
    /\ last.op = "execute"
    /\ "config" \in PreAttrs
    /\ PreContainerId = None
    /\ last.raised = "AssertionError"

C3_FallbackToOriginal ==
    ("config" \in attrs /\ try_local_registry /\ Len(calls) >= 1)
        => /\ calls[1].op = "pull"
           /\ calls[1].target = _get_local_registry_image(config.image)
           /\ PullFailed(1) =>
                 /\ \/ pc = "fallback" /\ Len(calls) = 1
                    \/ /\ Len(calls) >= 2
                       /\ calls[2].op = "pull"
                       /\ calls[2].target = config.image
                 /\ \A i \in 1..Len(calls) :
                        calls[i].op = "run" => calls[i].target = config.image

C3_Witness ==
    /\ "config" \in attrs /\ try_local_registry
    /\ Len(calls) >= 3
    /\ PullFailed(1) /\ PullFailed(2)
    /\ calls[3].op = "run" /\ calls[3].target = config.image
    /\ pc = "started"

\* C4: when the pull of the mirror reference succeeds, run is given the
\* mirror reference and no other pull is attempted.
C4_LocalImageUsed ==
    ( /\ "config" \in attrs /\ try_local_registry /\ Len(calls) >= 1
      /\ _pull_image(calls[1].outcome) = "True" )
        => \A i \in 2..Len(calls) :
               /\ calls[i].op # "pull"
               /\ calls[i].op = "run" =>
                      calls[i].target = _get_local_registry_image(config.image)

C4_Witness ==
    /\ "config" \in attrs /\ try_local_registry
    /\ Len(calls) >= 2
    /\ _pull_image(calls[1].outcome) = "True"
    /\ calls[2].op = "run"
    /\ calls[2].target = _get_local_registry_image(config.image)
    /\ config.image[1] = "docker.io"

\* the pull invocations issued so far
Pulls == { i \in 1..Len(calls) : calls[i].op = "pull" }

\* C5: with prefer_local_registry False or local_registry None, exactly one
\* pull is attempted, of the original image, run is given the original
\* image, and no invocation targets the mirror reference.
C5_NoMirrorWhenDisabled ==
    ( /\ "config" \in attrs
      /\ (~config.prefer_local_registry \/ config.local_registry = None) )
        => /\ \A i \in 1..Len(calls) :
                  calls[i].op \in {"pull", "run"} =>
                      /\ calls[i].target = config.image
                      /\ TruthyStr(config.local_registry) =>
                             calls[i].target
                                 # _get_local_registry_image(config.image)
           /\ Pulls = IF pc = "start" THEN {} ELSE {1}

C5_Witness ==
    /\ "config" \in attrs
    /\ ~config.prefer_local_registry
    /\ TruthyStr(config.local_registry)
    /\ pc = "started"
    /\ Pulls = {1}

\* C6: cleanup never raises, whether start never completed, the session is
\* started, or cleanup (or the destructor) follows another cleanup.
C6_CleanupNeverRaises == IsCleanup => last.raised = "none"

C6_Witness ==
    /\ last.op = "__del__"
    /\ last.prev = "cleanup"
    /\ TruthyStr(PreContainerId)
    /\ Len(Issued) = 1
    /\ last.raised = "none"

\* C7: cleanup on a session whose container id is unset issues no runtime
\* invocation and changes no session state.
C7_CleanupNoContainerNoOp ==
    (IsCleanup /\ ("container_id" \notin PreAttrs \/ PreContainerId = None))
        => /\ Issued = <<>>
           /\ Session = last.pre
           /\ last.raised = "none"

C7_Witness ==
    /\ last.op = "cleanup"
    /\ "config" \in PreAttrs
    /\ PreContainerId = None
    /\ Issued = <<>>

\* C8 as stated: a cleanup that directly follows a cleanup of a started
\* session issues no further termination sequence.
C8_SecondCleanupIssuesNothing ==
    (IsCleanup /\ last.prev = "cleanup" /\ pc \in {"started", "deleted"}
        /\ TruthyStr(PreContainerId))
        => Issued = <<>>

\* C8 amended: every cleanup of a started session, also one that directly
\* follows another cleanup, leaves the session state as it was, does not
\* raise, and issues exactly one termination sequence, for the recorded
\* container id; a second call in a row issues one more for the same id.
C8_CleanupKeepsStateIssuesOne ==
    (IsCleanup /\ "container_id" \in PreAttrs /\ PreContainerId # None)
        => /\ Session = last.pre
           /\ last.raised = "none"
           /\ Issued = << Invocation("term", PreContainerId, Spawned) >>
           /\ last.prev = "cleanup" =>
                  /\ last.before >= 1
                  /\ calls[last.before] = calls[Len(calls)]

C8_Witness ==
    /\ last.op = "cleanup"
    /\ last.prev = "cleanup"
    /\ TruthyStr(PreContainerId)
    /\ Len(calls) >= 2
    /\ calls[Len(calls)].op = "term"
    /\ calls[Len(calls) - 1].op = "term"

\* C9: when the in-container command exits with code n, zero or not,
\* execute does not raise and returns the captured output with returncode
\* n, and the session state is unchanged, so that a further execute passes
\* its precondition.
C9_ExitCodeIsResult ==
    (last.op = "execute" /\ last.cmd # None
        /\ calls[Len(calls)].outcome.kind = "exit")
        => /\ last.raised = "none"
           /\ last.ret = Some([ output |-> calls[Len(calls)].outcome.stdout,
                                returncode |->
                                    calls[Len(calls)].outcome.returncode ])
           /\ Session = last.pre
           /\ \A cwd \in CwdArgs : execute_precondition(cwd) = "none"

C9_Witness ==
    /\ last.op = "execute"
    /\ last.ret # None
    /\ last.ret[1].returncode = 42
    /\ nOps < MaxOps

\* C10: when start fails because the run invocation exits non-zero or
\* times out, no container of that start exists in the runtime and the
\* container id is unset.
C10_FailedRunLeavesNoContainer ==
    ( /\ last.op = "__init__"
      /\ last.raised \in {"CalledProcessError", "TimeoutExpired"} )
        => /\ container = "none"
           /\ container_id = None

\* the run invocations issued so far
Runs == { i \in 1..Len(calls) : calls[i].op = "run" }

\* id is out without its leading and trailing whitespace
IsTrimmed(id, out) ==
    /\ id # <<>> => (id[1] \notin Whitespace /\ id[Len(id)] \notin Whitespace)
    /\ \E i, j \in 0..Len(out) :
           /\ id = SubSeq(out, i + 1, j)
           /\ \A k \in (1..i) \cup ((j + 1)..Len(out)) : out[k] \in Whitespace

\* C11: at most one run invocation is ever issued; when it exits non-zero
\* the constructor fails with CalledProcessError and the container id stays
\* unset; when it exits zero the container id is its trimmed standard
\* output.
C11_RunOutcomeDecidesStart ==
    /\ Cardinality(Runs) <= 1
    /\ \A i \in Runs :
           LET out == calls[i].outcome
           IN  /\ (out.kind = "exit" /\ out.returncode # 0) =>
                      /\ pc \in {"failed", "deleted"}
                      /\ container_id = None
                      /\ last.op = "__init__" =>
                             last.raised = "CalledProcessError"
               /\ (out.kind = "exit" /\ out.returncode = 0) =>
                      /\ pc \in {"started", "deleted"}
                      /\ container_id # None
                      /\ IsTrimmed(container_id[1], out.stdout)

C11_Witness ==
    /\ \E i \in Runs : calls[i].outcome = Exit(125, <<>>)
    /\ pc = "failed"
    /\ last.op = "__init__"
    /\ last.raised = "CalledProcessError"
    /\ container_id = None

\* C12: the container id is None until start succeeds, is set by the
\* successful run step and only by it, and is changed by no execute,
\* cleanup or destructor call.
C12_ContainerIdSetOnce ==
    [][ /\ pc \in {"new", "start", "fallback", "run"} => container_id = None
        /\ (pc = "run" /\ pc' = "started") => container_id' # None
        /\ container_id' # container_id =>
               (pc = "run" /\ pc' = "started" /\ container_id = None) ]_vars

C12_Witness ==
    /\ pc = "deleted"
    /\ nOps = MaxOps
    /\ last.prev \in {"execute", "cleanup"}
    /\ TruthyStr(container_id)
    /\ container_id = PreContainerId

\* C13: a pull that exits non-zero or times out makes _pull_image return
\* False without raising (start goes on; after the mirror pull it falls
\* back to the original image), and only a pull that exits with status
\* zero counts as a success.
C13_PullFailureIsFalse ==
    \A i \in Pulls :
        Len(calls) = i =>
            LET out == calls[i].outcome
                mirror == i = 1 /\ try_local_registry
            IN  /\ ((out.kind = "exit" /\ out.returncode # 0)
                        \/ out.kind = "timeout") =>
                       /\ pc = IF mirror THEN "fallback" ELSE "run"
                       /\ image_to_use = config.image
                /\ (mirror /\ pc = "run") =>
                       (out.kind = "exit" /\ out.returncode = 0)

C13_Witness ==
    /\ try_local_registry
    /\ Len(calls) = 1
    /\ calls[1].op = "pull"
    /\ calls[1].outcome = Timeout
    /\ pc = "fallback"

\* C14: an exec invocation that times out makes execute raise
\* TimeoutExpired, return nothing, and leave the session state unchanged.
C14_ExecTimeoutSurfaces ==
    (last.op = "execute" /\ last.cmd # None
        /\ calls[Len(calls)].outcome.kind = "timeout")
        => /\ last.raised = "TimeoutExpired"
           /\ last.ret = None
           /\ Session = last.pre

C14_Witness ==
    /\ last.op = "execute"
    /\ last.cmd # None
    /\ calls[Len(calls)].outcome = Timeout
    /\ last.raised = "TimeoutExpired"
    /\ TruthyStr(container_id)

\* C15: the timeout of the exec invocation is the timeout argument of
\* execute whenever one is given, whatever integer it is, and the
\* configured timeout only when none is given.
C15_ExplicitTimeoutIsEffective ==
    (last.op = "execute" /\ last.cmd # None)
        => last.cmd[1].timeout =
               IF last.args[1].timeout # None
               THEN last.args[1].timeout[1]
               ELSE config.timeout

\* C16: the working directory of the exec invocation is the cwd argument
\* of execute when one is provided (a non-empty string; the empty string
\* is the default of the parameter), and the configured working directory
\* otherwise.
C16_CwdArgumentOrConfig ==
    (last.op = "execute" /\ last.cmd # None)
        => last.cmd[1].cwd =
               IF last.args[1].cwd # ""
               THEN last.args[1].cwd
               ELSE config.cwd

C16_Witness ==
    /\ last.op = "execute"
    /\ last.cmd # None
    /\ last.prev = "execute"
    /\ last.args[1].cwd = ""
    /\ config.cwd = CustomCwd
    /\ last.cmd[1].cwd = CustomCwd

\* the -e flags of an exec invocation that precede those of config.env
forwarded(cmd) == SubSeq(cmd.env, 1, Len(cmd.env) - Len(config.env))

\* C17: a name of forward_env that is not set in the host environment at
\* the time of the execute call adds no -e flag to the exec invocation (the
\* flags of config.env follow unchanged) and execute raises nothing on its
\* account.
C17_AbsentForwardAddsNoFlag ==
    (last.op = "execute" /\ last.cmd # None)
        => LET cmd == last.cmd[1]
               absent == { i \in 1..Len(config.forward_env) :
                               \/ config.forward_env[i] \notin DOMAIN last.environ
                               \/ last.environ[config.forward_env[i]] = None }
           IN  /\ Len(cmd.env) >= Len(config.env)
               /\ SubSeq(cmd.env, Len(cmd.env) - Len(config.env) + 1,
                         Len(cmd.env)) = config.env
               /\ Len(forwarded(cmd)) = Len(config.forward_env)
                                           - Cardinality(absent)
               /\ \A i \in absent :
                      \A j \in 1..Len(forwarded(cmd)) :
                          forwarded(cmd)[j][1] # config.forward_env[i]
               /\ calls[Len(calls)].outcome.kind = "exit" =>
                      last.raised = "none"

C17_Witness ==
    /\ last.op = "execute"
    /\ last.cmd # None
    /\ config.forward_env = <<"K1", "K2">>
    /\ last.environ["K1"] = None
    /\ config.env = <<>>
    /\ last.cmd[1].env = <<>>
    /\ last.raised = "none"
    /\ last.ret # None

\* the termination sequences spawned so far are those of the log
TermsOfCalls ==
    LET idx == { i \in 1..Len(calls) : calls[i].op = "term" }
    IN  /\ Len(terms) = Cardinality(idx)
        /\ \A i \in idx : \E k \in 1..Len(terms) :
               terms[k].target = calls[i].target

\* C18: a cleanup on a session with a recorded container id spawns one
\* termination sequence naming that container; every sequence attempts the
\* stop under a bound of 60 seconds, and the force-remove of the same
\* container has been issued exactly when the stop failed or did not
\* complete within the bound: never while the stop is pending, never after
\* a stop that succeeded.
C18_StopThenForceRemove ==
    /\ TermsOfCalls
    /\ (IsCleanup /\ PreContainerId # None /\ "config" \in PreAttrs) =>
           Issued = << Invocation("term", PreContainerId, Spawned) >>
    /\ \A i \in 1..Len(terms) :
           /\ terms[i].bound = 60
           /\ terms[i].target = container_id
           /\ terms[i].stop \in {"pending"} \cup StopResults
           /\ terms[i].stop = "pending" => terms[i].rm = "none"
           /\ terms[i].rm # "none" <=> terms[i].stop \in {"failed", "timeout"}

C18_Witness ==
    \E i, j \in 1..Len(terms) :
        /\ TruthyStr(terms[i].target)
        /\ terms[i].stop = "timeout"
        /\ terms[i].rm = "done"
        /\ terms[j].stop = "ok"
        /\ terms[j].rm = "none"

\* a step that is a call of cleanup, explicit or from the destructor
CleanupStep ==
    /\ last'.op \in {"cleanup", "__del__"}
    /\ nOps' # nOps \/ pc' # pc

\* a step of a termination sequence
TermStep == terms' # terms /\ Len(terms') = Len(terms)

\* C19: a cleanup call is complete with the termination sequence it
\* spawned not yet begun and the container as it was: it returns nothing,
\* and no later step of a termination sequence changes what the caller
\* got or the session.
C19_CleanupDoesNotWait ==
    [][ /\ CleanupStep =>
               /\ container' = container
               /\ SubSeq(terms', 1, Len(terms)) = terms
               /\ \A i \in (Len(terms) + 1)..Len(terms') :
                      terms'[i].stop = "pending" /\ terms'[i].rm = "none"
               /\ last'.ret = None
        /\ TermStep =>
               /\ last' = last
               /\ Session' = Session
               /\ calls' = calls
               /\ pc' = pc ]_vars

C19_Witness ==
    /\ last.op = "execute"
    /\ last.prev = "cleanup"
    /\ last.raised = "none"
    /\ container = "running"
    /\ Len(terms) = 1
    /\ terms[1].stop = "pending"
    /\ TruthyStr(terms[1].target)

\* the start of the session succeeded: its run invocation exited with zero
StartSucceeded ==
    \E i \in Runs :
        calls[i].outcome.kind = "exit" /\ calls[i].outcome.returncode = 0

\* C20: when the lifetime of the session object has ended, the destructor
\* was its last call and did not raise; for a session whose start
\* succeeded it spawned the termination sequence of its container,
\* whether or not cleanup had been called before, and for a session whose
\* constructor failed it issued nothing.
C20_DestructorCleansUp ==
    pc = "deleted" =>
        /\ last.op = "__del__"
        /\ last.raised = "none"
        /\ Issued = IF StartSucceeded
                    THEN << Invocation("term", container_id, Spawned) >>
                    ELSE << >>
        /\ ~StartSucceeded => (container_id = None /\ Session = last.pre)

C20_Witness ==
    /\ pc = "deleted"
    /\ nOps = 0
    /\ last.prev = "__init__"
    /\ StartSucceeded
    /\ TruthyStr(container_id)
    /\ Issued = << Invocation("term", container_id, Spawned) >>

\* image references the mirror reference is computed for
ImageNames ==
    { <<"python:3.11">>, <<"docker.io", "python:3.11">>, <<"docker.io">>,
      <<"ghcr.io", "a", "b">>, <<"docker.io", "docker.io", "x">>,
      <<"library", "docker.io">> }

\* the reference starts with "docker.io/"
HasDockerIoPrefix(x) == Len(x) >= 2 /\ x[1] = "docker.io"

\* C22: with a mirror host configured, the mirror reference of an image is
\* the host, a slash and the image without a leading docker.io/ prefix, so
\* for an image X that does not start with docker.io/ the references of X
\* and of docker.io/X are the same; with no mirror host the reference is
\* the image itself.
C22_MirrorReference ==
    \A X \in ImageNames :
        IF TruthyStr(config.local_registry)
        THEN /\ _get_local_registry_image(X) =
                    config.local_registry[1]
                        \o (IF HasDockerIoPrefix(X) THEN Tail(X) ELSE X)
             /\ ~HasDockerIoPrefix(X) =>
                    _get_local_registry_image(<<"docker.io">> \o X) =
                        _get_local_registry_image(X)
        ELSE _get_local_registry_image(X) = X

C22_Witness ==
    /\ config.local_registry = Some(<<"localhost:5000">>)
    /\ config.image = <<"docker.io", "python:3.11">>
    /\ Len(calls) >= 1
    /\ calls[1].op = "pull"
    /\ calls[1].target = <<"localhost:5000", "python:3.11">>

\* C24: the configuration built from an image alone has the registry
\* localhost:5000 and prefers it, and the first runtime invocation of a
\* session with that configuration is a pull of localhost:5000/<image>
\* (the image without its docker.io/ prefix when it has one).
C24_DefaultsPullFromLocalhost ==
    \A image \in Images :
        /\ DefaultConfig(image).local_registry = Some(<<"localhost:5000">>)
        /\ DefaultConfig(image).prefer_local_registry
        /\ (config = DefaultConfig(image) /\ calls # <<>>) =>
               /\ calls[1].op = "pull"
               /\ calls[1].target =
                      <<"localhost:5000">>
                          \o (IF HasDockerIoPrefix(image) THEN Tail(image)
                              ELSE image)

C24_Witness ==
    /\ config = DefaultConfig(<<"python:3.11">>)
    /\ Len(calls) = 1
    /\ calls[1].op = "pull"
    /\ calls[1].target = <<"localhost:5000", "python:3.11">>

\* the position of the run invocation in the log, 0 when there is none
RunIndex == IF Runs = {} THEN 0 ELSE CHOOSE i \in Runs : TRUE

\* C26: every pull precedes the one run invocation; once start has
\* completed nothing is pulled or run again: every invocation after the
\* run is an exec or a termination sequence, and names the container id
\* recorded at start.
C26_StartThenExecOnly ==
    /\ Cardinality(Runs) <= 1
    /\ Runs = {} => \A i \in 1..Len(calls) : calls[i].op = "pull"
    /\ Runs # {} =>
           /\ \A i \in 1..(RunIndex - 1) : calls[i].op = "pull"
           /\ \A i \in (RunIndex + 1)..Len(calls) :
                  /\ calls[i].op \in {"exec", "term"}
                  /\ calls[i].target = container_id
    /\ pc \in {"started", "deleted"} /\ container_id # None => Runs # {}

C26_Witness ==
    /\ Len(calls) = 5
    /\ calls[1].op = "pull"
    /\ calls[2].op = "pull"
    /\ calls[3].op = "run"
    /\ calls[4].op = "exec"
    /\ calls[5].op = "term"
    /\ TruthyStr(container_id)
    /\ calls[4].target = container_id
    /\ calls[5].target = container_id

\* the pulls issued so far all ran: each exited or timed out
PullsRan ==
    \A i \in Pulls : calls[i].outcome.kind \in {"exit", "timeout"}

\* C27: whatever the pulls do (exit zero, exit non-zero, time out), start
\* issues at most two of them and then exactly one run invocation: the
\* constructor fails on account of no pull.
C27_PullsNeverFailStart ==
    ("config" \in attrs /\ PullsRan) =>
        /\ Cardinality(Pulls) <= 2
        /\ Cardinality(Runs) <= 1
        /\ pc \in {"started", "failed", "deleted"} =>
               /\ Cardinality(Pulls) >= 1
               /\ Cardinality(Runs) = 1
        /\ pc = "run" => (Cardinality(Pulls) >= 1 /\ Runs = {})
        /\ (pc = "failed" /\ last.op = "__init__") =>
               last.raised = check_true_error(calls[RunIndex].outcome)

C27_Witness ==
    /\ Len(calls) = 3
    /\ calls[1].op = "pull"
    /\ calls[1].outcome = Exit(1, <<>>)
    /\ calls[2].op = "pull"
    /\ calls[2].outcome = Timeout
    /\ calls[3].op = "run"
    /\ pc = "started"

\* C28: a pull that fails because the runtime binary cannot be launched
\* raises nothing to the caller of the constructor, and start goes on
\* towards the run invocation.
C28_LaunchFailureStaysLocal ==
    \A i \in Pulls :
        (calls[i].outcome.kind = "launch_error" /\ Len(calls) = i) =>
            /\ pc \in {"fallback", "run"}
            /\ last.op # "__init__"

\* C29: whenever the session has a configuration, cleanup would issue a
\* termination sequence exactly when execute would pass its precondition,
\* and every termination sequence issued names a non-empty container id.
C29_ExecuteAndCleanupAgree ==
    /\ "config" \in attrs =>
           ((cleanup_guard /\ cleanup_error = "none")
                <=> execute_precondition("") = "none")
    /\ \A i \in 1..Len(calls) :
           calls[i].op = "term" => TruthyStr(calls[i].target)

\* C30: cleanup leaves the container id and the configuration as they
\* were, so an execute called right after a cleanup on a started session
\* passes its precondition and issues one exec invocation, against the
\* container whose termination that cleanup requested.
C30_ExecuteAfterCleanup ==
    /\ IsCleanup => Session = last.pre
    /\ (last.op = "execute" /\ last.prev = "cleanup"
            /\ TruthyStr(container_id)) =>
           /\ last.cmd # None
           /\ last.raised \notin {"AssertionError", "AttributeError"}
           /\ Len(Issued) = 1
           /\ Issued[1].op = "exec"
           /\ Issued[1].target = container_id
           /\ last.before >= 1
           /\ calls[last.before].op = "term"
           /\ calls[last.before].target = container_id

C30_Witness ==
    /\ last.op = "execute"
    /\ last.prev = "cleanup"
    /\ last.ret # None
    /\ Len(Issued) = 1
    /\ Issued[1].op = "exec"
    /\ \E i \in 1..Len(terms) :
           /\ terms[i].stop = "pending"
           /\ TruthyStr(terms[i].target)
           /\ Issued[1].target = terms[i].target

\* C21: a container that runs stops by itself, when its sleep of
\* container_timeout ends, in every behaviour, those without any cleanup
\* or destructor call included; an exec invocation issued against a
\* container that is not running does not exit with status zero.
C21_ContainerExpires ==
    /\ [][ (container # "running" /\ Len(calls') = Len(calls) + 1
               /\ calls'[Len(calls')].op = "exec")
           => ~(calls'[Len(calls')].outcome.kind = "exit"
                  /\ calls'[Len(calls')].outcome.returncode = 0) ]_vars
    /\ (container = "running") ~> (container # "running")

C21_Witness ==
    /\ pc = "started"
    /\ terms = <<>>
    /\ container = "gone"
    /\ config.container_timeout = CustomContainerTimeout
    /\ last.op = "execute"
    /\ last.ret = Some(execute_return(NotRunning))

\* the value of the flag named key among flags, None when there is none
FlagOf(flags, key) ==
    IF \E j \in 1..Len(flags) : flags[j][1] = key
    THEN Some(flags[CHOOSE j \in 1..Len(flags) : flags[j][1] = key][2])
    ELSE None

\* the flags of env that precede those of config.env
ForwardedOf(env) == SubSeq(env, 1, Len(env) - Len(config.env))

\* C25: the flag of a forwarded name in an exec invocation is the host's
\* value of that name when that execute was called, and there is no flag
\* when the name was not set then; so when the host value differs between
\* two execute calls in a row, each invocation carries the value of its
\* own time: the second has the new value, or has gained or lost the flag.
C25_ForwardAtCallTime ==
    (last.op = "execute" /\ last.cmd # None) =>
        \A key \in DOMAIN forwarded_host(last.environ) :
            /\ FlagOf(ForwardedOf(last.cmd[1].env), key) = last.environ[key]
            /\ last.earlier # None =>
                   FlagOf(ForwardedOf(last.earlier[1].env), key) =
                       last.earlier[1].host[key]

C25_Witness ==
    /\ last.op = "execute"
    /\ last.cmd # None
    /\ last.earlier # None
    /\ last.earlier[1].host["K1"] = Some("h")
    /\ last.environ["K1"] = Some("g")
    /\ FlagOf(ForwardedOf(last.earlier[1].env), "K1") = Some("h")
    /\ FlagOf(ForwardedOf(last.cmd[1].env), "K1") = Some("g")

\* every exec and every termination sequence of the log cs names cid
OwnTargets(cs, cid) ==
    \A i \in 1..Len(cs) : cs[i].op \in {"exec", "term"} => cs[i].target = cid

\* the number of run invocations in the log cs
RunsIn(cs) == Cardinality({ i \in 1..Len(cs) : cs[i].op = "run" })

\* C23: with two session objects interleaved in any order, each issues at
\* most one run invocation, the two container ids differ, every exec and
\* every termination sequence of an object names that object's own
\* container id, and a step of one object changes nothing of the other.
C23_InstancesAreIndependent ==
    [][ /\ RunsIn(calls) <= 1 /\ RunsIn(other.calls) <= 1
        /\ (TruthyStr(container_id) /\ TruthyStr(other.container_id)) =>
               container_id # other.container_id
        /\ OwnTargets(calls, container_id)
        /\ OwnTargets(other.calls, other.container_id)
        /\ this' = this => other' = other
        /\ this' # this =>
               /\ other'.container_id = container_id
               /\ other'.calls = calls
               /\ container_id' = other.container_id
               /\ calls' = other.calls ]_vars

C23_Witness ==
    /\ this = 2
    /\ container_id = Some(<<"c", "2">>)
    /\ other.container_id = Some(<<"c", "1">>)
    /\ \E i, j \in 1..Len(calls) :
           calls[i].op = "exec" /\ calls[j].op = "term"
    /\ \E i, j \in 1..Len(other.calls) :
           other.calls[i].op = "exec" /\ other.calls[j].op = "term"
    /\ OwnTargets(calls, container_id)
    /\ OwnTargets(other.calls, other.container_id)

\* the commands of a sweep, in order
SweepSteps ==
    << "system df", "image prune -f -a", "network prune -f",
       "builder prune -f", "images", "image prune -f", "system df" >>

\* C31: run_docker_command raises nothing and returns -1 for a command
\* that timed out or could not be run, and a sweep that ran to its end
\* has run all seven commands, in order.
C31_SweepRunsAllSteps ==
    /\ \A out \in SweepOutcomes :
           /\ run_docker_command(out).raised = "none"
           /\ out.kind # "exit" => run_docker_command(out).returncode = -1
    /\ sweep.done # <<>> => sweep.done = SweepSteps

\* C32: when a sweep is about to begin, the last wait completed is the
\* 3-hour wait, and the waits completed since the sweep before it began
\* are that one 3-hour wait and nothing else.
C32_OneWaitBetweenSweeps ==
    sweep.pc = "df1" =>
        /\ sweep.since # <<>>
        /\ sweep.since[Len(sweep.since)] = SweepInterval
        /\ sweep.n >= 1 => sweep.since = << SweepInterval >>

\* the positions of the assistant messages that carry logprobs in the
\* first choice of their response
Carriers(messages) ==
    { i \in 1..Len(messages) :
          /\ has_choices(messages[i])
          /\ messages[i].extra[1].response[1].choices[1] # <<>>
          /\ messages[i].extra[1].response[1].choices[1][1].logprobs # None }

\* C33: a call of save_traj has written the trajectory file; it has
\* written the logprobs file exactly when save_logprobs is true, an agent
\* was given and some assistant message of the agent carries logprobs in
\* its first response choice, and then logprobs_count is the number of
\* those messages.
C33_LogprobsFileIffCarried ==
    traj.called =>
        /\ traj.traj_file
        /\ traj.logprobs_file <=>
               /\ traj.save_logprobs
               /\ traj.agent # None
               /\ Carriers(traj.agent[1]) # {}
        /\ traj.logprobs_file =>
               traj.logprobs_count = Cardinality(Carriers(traj.agent[1]))
====
